---- MODULE Spec2Model ----
(***************************************************************************)
(* Distillation-curve interconversion (bp_conversions.Oil) as a state      *)
(* machine.  A sample is constructed once from (points, density, family    *)
(* tag); afterwards readers evaluate its four curves, read its scalars     *)
(* and call convert_temperature.                                           *)
(*                                                                         *)
(* Numbers.  The program computes in IEEE doubles; the model computes in   *)
(* fixed point on TLC's 32-bit integers.  A temperature, a temperature     *)
(* difference, a slope and a coefficient `a` are integers in units of      *)
(* 1/S (S = 10^4); an exponent `b` and the argument of exp/ln are integers *)
(* in units of 1/Q (Q = 10^8).  Every product is formed by MulDiv, which   *)
(* never overflows.  Against the double computation the model's curve      *)
(* values differ by less than 0.01 degree on the inputs used here, so      *)
(* comparisons are only stated where the margin is larger than that.       *)
(* Volume percents are whole numbers.                                      *)
(***************************************************************************)
EXTENDS Integers, Sequences, FiniteSets, TLC

\* ------------------------------------------------------------------------
\* Fixed-point arithmetic (Python float operators * / ** and math.exp)
\* ------------------------------------------------------------------------

S == 10^4

Q == 10^8

MaxInt == (2^30 - 1) * 2 + 1

Abs(a) == IF a < 0 THEN -a ELSE a

Sgn(a) == IF a > 0 THEN 1 ELSE IF a < 0 THEN -1 ELSE 0

\* a / b rounded toward zero, b > 0
Div(a, b) == IF a >= 0 THEN a \div b ELSE -((-a) \div b)

\* a quotient and a remainder with the remainder's carry moved over
Carry(q, r, c) == <<q + (r \div c), r % c>>

\* one digit of the long multiplication: h is the <<quotient, remainder>> of
\* the higher digits, low the lowest digit of b in the base B
LongStep(a, low, c, B, h) ==
    Carry(h[1] * B + ((h[2] * B) \div c) + ((a * low) \div c),
          ((h[2] * B) % c) + ((a * low) % c), c)

RECURSIVE MulDivPos(_, _, _)
\* <<floor(a*b/c), (a*b) mod c>> for 0 <= a < c, b >= 0 and 0 < c < 2^30, by
\* long multiplication in the base B = MaxInt \div c, so that no
\* intermediate leaves 32 bits
MulDivPos(a, b, c) ==
    IF a = 0 \/ b = 0 THEN <<0, 0>>
    ELSE IF a <= MaxInt \div b THEN <<(a * b) \div c, (a * b) % c>>
    ELSE LongStep(a, b % (MaxInt \div c), c, MaxInt \div c,
                  MulDivPos(a, b \div (MaxInt \div c), c))

\* x * y / c rounded down, for x >= 0, y >= 0, c > 0
MulDivAbs(x, y, c) == (x \div c) * y + MulDivPos(x % c, y, c)[1]

\* a * b / c rounded toward zero, c > 0
MulDiv(a, b, c) ==
    IF Sgn(a) * Sgn(b) < 0 THEN -MulDivAbs(Abs(a), Abs(b), c)
    ELSE MulDivAbs(Abs(a), Abs(b), c)

RECURSIVE Log2Floor(_)
Log2Floor(x) == IF x < 2 THEN 0 ELSE 1 + Log2Floor(x \div 2)

RECURSIVE AtanhSeries(_, _, _)
\* sum over j of z^(2j+1) / (2j+1), term = z^(2j+1), units 1/Q
AtanhSeries(term, z2, j) ==
    IF j > 11 \/ term = 0 THEN 0
    ELSE term \div (2 * j + 1) + AtanhSeries(MulDiv(term, z2, Q), z2, j + 1)

\* atanh(z / Q) in units 1/Q
Atanh(z) == AtanhSeries(z, MulDiv(z, z, Q), 0)

\* ln(m / Q) in units 1/Q, for 1 <= m / Q < 2:  ln m = 2 atanh((m-1)/(m+1))
LnMantissa(m) == 2 * Atanh(MulDiv(m - Q, Q, m + Q))

\* ln(x / S) for x = m * 2^k
LnScaled(x, k) ==
    LET ln2 == 69314718
        lnS == 921034037
    IN  k * ln2 + LnMantissa(MulDiv(x, Q, 2^k)) - lnS

\* ln(x / S) in units 1/Q, for x > 0
Ln(x) == LnScaled(x, Log2Floor(x))

RECURSIVE ExpSeries(_, _, _)
\* sum over n of r^n / n!, term = r^n / n!, units 1/Q
ExpSeries(term, r, n) ==
    IF n > 14 \/ term = 0 THEN 0
    ELSE term + ExpSeries(MulDiv(term, r, Q) \div (n + 1), r, n + 1)

\* exp(y / Q) for y = k ln 2 + r, |r| <= ln(2)/2
ExpScaled(y, k) ==
    LET ln2 == 69314718
    IN  IF k >= 0 THEN MulDiv(ExpSeries(Q, y - k * ln2, 0), 2^k, Q \div S)
        ELSE IF -k >= 17 THEN 0
        ELSE ExpSeries(Q, y - k * ln2, 0) \div (2^(-k) * (Q \div S))

\* exp(y / Q) in units 1/S
Exp(y) == LET ln2 == 69314718 IN ExpScaled(y, (y + ln2 \div 2) \div ln2)

\* (x / S) ** (b / Q) in units 1/S, for x >= 0
Pow(x, b) == IF x = 0 THEN 0 ELSE Exp(MulDiv(Ln(x), b, Q))

\* a * x ** b, the power law of every correlation (a in 1/S, b in 1/Q)
PowerLaw(a, x, b) == MulDiv(a, Pow(x, b), S)

\* the exponent b itself in place of 1.0 / b
Inverse_not_taken(b) == b

\* 1.0 / b in units 1/Q
Inverse(b) == MulDiv(Q, Q, b)

\* ------------------------------------------------------------------------
\* Strings: a string is the sequence of its characters, so that upper()
\* is an operation on it
\* ------------------------------------------------------------------------

LowerCase == <<"a","b","c","d","e","f","g","h","i","j","k","l","m",
               "n","o","p","q","r","s","t","u","v","w","x","y","z">>

UpperCase == <<"A","B","C","D","E","F","G","H","I","J","K","L","M",
               "N","O","P","Q","R","S","T","U","V","W","X","Y","Z">>

UpperChar(c) ==
    IF \E i \in 1..26 : LowerCase[i] = c
    THEN UpperCase[CHOOSE i \in 1..26 : LowerCase[i] = c]
    ELSE c

\* str.capitalize() in place of str.upper(): only the first letter raised
upper_first(str) ==
    [i \in 1..Len(str) |-> IF i = 1 THEN UpperChar(str[i]) ELSE str[i]]

\* str.upper()
upper(str) == [i \in 1..Len(str) |-> UpperChar(str[i])]

\* ------------------------------------------------------------------------
\* Temperature units
\* ------------------------------------------------------------------------

\* unit_map.get(name, None); "none" stands for None
unit_map(name) ==
    CASE name \in { <<"C">>, <<"°","C">>, <<"C","E","L","S","I","U","S">>,
                    <<"D","E","G"," ","C">> } -> "C"
      [] name \in { <<"K">>, <<"K","E","L","V","I","N">> } -> "K"
      [] name \in { <<"F">>, <<"°","F">>,
                    <<"F","A","H","R","E","N","H","E","I","T">> } -> "F"
      [] name \in { <<"R">>, <<"°","R">>, <<"R","A","N","K","I","N","E">> } -> "R"
      [] OTHER -> "none"

\* the input unit to Celsius
ToCelsius(value, unit) ==
    CASE unit = "C" -> value
      [] unit = "K" -> value - 2731500
      [] unit = "F" -> MulDiv(value - 32 * S, 5, 9)
      [] unit = "R" -> MulDiv(value - 4916700, 5, 9)

\* Celsius to the output unit with Rankine taken as Fahrenheit + 460
FromCelsius_460(celsius, unit) ==
    CASE unit = "C" -> celsius
      [] unit = "K" -> celsius + 2731500
      [] unit = "F" -> MulDiv(celsius, 9, 5) + 32 * S
      [] unit = "R" -> MulDiv(celsius, 9, 5) + 32 * S + 460 * S

\* Celsius to the output unit
FromCelsius(celsius, unit) ==
    CASE unit = "C" -> celsius
      [] unit = "K" -> celsius + 2731500
      [] unit = "F" -> MulDiv(celsius, 9, 5) + 32 * S
      [] unit = "R" -> MulDiv(celsius + 2731500, 9, 5)

\* convert_temperature with the identity return ahead of the unit checks
convert_temperature_identity_first(value, from_unit, to_unit) ==
    LET f == unit_map(upper(from_unit))
        t == unit_map(upper(to_unit))
    IN  IF from_unit = to_unit THEN [raised |-> FALSE, value |-> value]
        ELSE IF f = "none" THEN [raised |-> TRUE, error |-> "ValueError"]
        ELSE IF t = "none" THEN [raised |-> TRUE, error |-> "ValueError"]
        ELSE IF f = t THEN [raised |-> FALSE, value |-> value]
        ELSE [raised |-> FALSE, value |-> FromCelsius(ToCelsius(value, f), t)]

\* Oil.convert_temperature: [raised, value]
convert_temperature(value, from_unit, to_unit) ==
    LET f == unit_map(upper(from_unit))
        t == unit_map(upper(to_unit))
    IN  IF f = "none" THEN [raised |-> TRUE, error |-> "ValueError"]
        ELSE IF t = "none" THEN [raised |-> TRUE, error |-> "ValueError"]
        ELSE IF f = t THEN [raised |-> FALSE, value |-> value]
        ELSE [raised |-> FALSE, value |-> FromCelsius(ToCelsius(value, f), t)]

C2F(t) == convert_temperature(t, <<"C">>, <<"F">>).value

F2C(t) == convert_temperature(t, <<"F">>, <<"C">>).value

C2R(t) == convert_temperature(t, <<"C">>, <<"R">>).value

R2C(t) == convert_temperature(t, <<"R">>, <<"C">>).value

\* ------------------------------------------------------------------------
\* PchipInterpolator: shape-preserving piecewise cubic Hermite interpolant
\* ------------------------------------------------------------------------

Raised == [raised |-> TRUE, error |-> "ValueError"]

\* slope of segment i (between knots i and i+1), units 1/S per percent
Slope(x, y, i) == Div(y[i + 1] - y[i], x[i + 1] - x[i])

\* the end derivative d limited to keep the shape
EdgeLimit(d, m0, m1) ==
    IF Sgn(d) # Sgn(m0) THEN 0
    ELSE IF Sgn(m0) # Sgn(m1) /\ Abs(d) > 3 * Abs(m0) THEN 3 * m0
    ELSE d

\* one-sided three-point end derivative
EdgeDerivative(h0, h1, m0, m1) ==
    EdgeLimit(MulDiv(2 * h0 + h1, m0, h0 + h1) - MulDiv(h0, m1, h0 + h1), m0, m1)

\* derivative at knot i: weighted harmonic mean of the adjacent slopes
Derivative(x, y, i) ==
    LET n == Len(x)
        h(j) == x[j + 1] - x[j]
        m(j) == Slope(x, y, j)
    IN  IF n = 2 THEN m(1)
        ELSE IF i = 1 THEN EdgeDerivative(h(1), h(2), m(1), m(2))
        ELSE IF i = n THEN EdgeDerivative(h(n - 1), h(n - 2), m(n - 1), m(n - 2))
        ELSE IF Sgn(m(i - 1)) # Sgn(m(i)) \/ m(i - 1) = 0 \/ m(i) = 0 THEN 0
        ELSE LET w1 == 2 * h(i) + h(i - 1)
                 w2 == h(i) + 2 * h(i - 1)
                 den == w1 * m(i) + w2 * m(i - 1)
             IN  Sgn(den) * MulDiv(m(i - 1), m(i) * (w1 + w2), Abs(den))

StrictlyIncreasing(x) == \A i \in 1..(Len(x) - 1) : x[i] < x[i + 1]

\* a list comprehension: the list with every element computed
List(seq) == seq \o << >>

\* PchipInterpolator(x, y): raises ValueError for fewer than 2 points or x
\* not strictly increasing; otherwise the knots with their derivatives
PchipInterpolator(x, y) ==
    IF Len(x) < 2 \/ Len(x) # Len(y) \/ ~StrictlyIncreasing(x) THEN Raised
    ELSE [raised |-> FALSE, x |-> x, y |-> y,
          d |-> List([i \in 1..Len(x) |-> Derivative(x, y, i)])]

\* interp(v): the cubic of the segment holding v; the boundary segment's
\* cubic outside the knots (extrapolation)
Eval(interp, v) ==
    LET x == interp.x
        n == Len(x)
        below == {j \in 1..(n - 1) : x[j] <= v}
        i == IF below = {} THEN 1 ELSE CHOOSE j \in below : \A k \in below : k <= j
        h == x[i + 1] - x[i]
        t == v - x[i]
        h3 == h * h * h
        c00 == 2 * t * t * t - 3 * t * t * h + h3
        c10 == t * t * t - 2 * t * t * h + t * h * h
        c01 == 3 * t * t * h - 2 * t * t * t
        c11 == t * t * t - t * t * h
    IN  MulDiv(interp.y[i], c00, h3) + MulDiv(interp.d[i], c10, h * h)
        + MulDiv(interp.y[i + 1], c01, h3) + MulDiv(interp.d[i + 1], c11, h * h)

\* [point[0] for point in pts] and [point[1] for point in pts]
Vols(pts) == List([i \in 1..Len(pts) |-> pts[i][1]])

Temps(pts) == List([i \in 1..Len(pts) |-> pts[i][2]])

\* the [vol, temp] list of a list of volumes and a list of temperatures
Zip(vols, temps) == List([i \in 1..Len(vols) |-> <<vols[i], temps[i]>>])

\* all(...) over a sequence of numbers: none is NaN, i.e. no power was taken
\* of a negative base
NonNegative(seq) == \A i \in 1..Len(seq) : seq[i] >= 0

\* ------------------------------------------------------------------------
\* Correlation tables: key |-> <<a in 1/S, b in 1/Q>>
\* ------------------------------------------------------------------------

vol_distl_list == <<0, 10, 30, 50, 70, 90, 95>>

key_points == <<0, 10, 30, 50, 70, 90, 100>>

API_constants ==
    (0 :> <<9167, 100190000>>) @@ (10 :> <<5277, 109000000>>) @@
    (30 :> <<7429, 104250000>>) @@ (50 :> <<8920, 101760000>>) @@
    (70 :> <<8705, 102260000>>) @@ (90 :> <<9490, 101100000>>) @@
    (95 :> <<8008, 103550000>>)

Daubert_constants ==
    << <<74012, 60240000>>, <<49004, 71640000>>, <<30305, 80080000>>,
       <<8718, 102580000>>, <<25282, 82000000>>, <<30419, 77500000>>,
       <<1180, 166060000>> >>

riazi_d86_coefficients ==
    (0 :> <<9965, 99850000>>) @@ (10 :> <<9970, 99880000>>) @@
    (30 :> <<9975, 99900000>>) @@ (50 :> <<9977, 99920000>>) @@
    (70 :> <<9975, 99900000>>) @@ (90 :> <<9968, 99860000>>) @@
    (100 :> <<9960, 99820000>>)

riazi_tbp_coefficients ==
    (0 :> <<10010, 100050000>>) @@ (10 :> <<10008, 100040000>>) @@
    (30 :> <<10005, 100030000>>) @@ (50 :> <<10003, 100020000>>) @@
    (70 :> <<10005, 100030000>>) @@ (90 :> <<10008, 100040000>>) @@
    (100 :> <<10010, 100050000>>)

\* ------------------------------------------------------------------------
\* Conversions.  One that builds an interpolant returns Raised when the
\* interpolant cannot be built, as the exception leaves the method.
\* ------------------------------------------------------------------------

\* API_D86_TBP from the Rankine temperatures at the keys
API_TBP_interp(D86_interp, D86_r) ==
    IF ~NonNegative(D86_r) THEN Raised
    ELSE [raised |-> FALSE, D86_interp |-> D86_interp,
          TBP_interp |->
              PchipInterpolator(vol_distl_list,
                  List([i \in 1..7 |->
                      R2C(PowerLaw(API_constants[vol_distl_list[i]][1], D86_r[i],
                                   API_constants[vol_distl_list[i]][2]))]))]

\* API_D86_TBP from the interpolant of the D86 points
API_from_interp(D86_interp) ==
    IF D86_interp.raised THEN Raised
    ELSE API_TBP_interp(D86_interp,
             List([i \in 1..7 |-> C2R(Eval(D86_interp, vol_distl_list[i]))]))

\* Oil.API_D86_TBP: [raised, D86_interp, TBP_interp]
API_D86_TBP(d86) == API_from_interp(PchipInterpolator(Vols(d86), Temps(d86)))

\* D86_dict[v]: the temperature of the (last) point at volume v
DictGet(pts, v) ==
    pts[CHOOSE i \in 1..Len(pts) :
            pts[i][1] = v /\ \A j \in 1..Len(pts) : pts[j][1] = v => j <= i][2]

\* for dist in dist_required: if dist not in D86_dict_r
missing_point(D86) ==
    \E i \in 1..7 : \A j \in 1..Len(D86) : D86[j][1] # vol_distl_list[i]

\* TBP_r_list with every key at its own increment from TBP_50
Daubert_TBP_interp_from_anchor(TBP_50, dT) ==
    PchipInterpolator(vol_distl_list,
        << F2C(TBP_50 - dT[1]), F2C(TBP_50 - dT[2]), F2C(TBP_50 - dT[3]),
           F2C(TBP_50),
           F2C(TBP_50 + dT[4]), F2C(TBP_50 + dT[5]), F2C(TBP_50 + dT[6]) >>)

\* TBP_r_list to TBP_interp: TBP_50 and the six increments dT, in Fahrenheit
Daubert_TBP_interp(TBP_50, dT) ==
    PchipInterpolator(vol_distl_list,
        << F2C(TBP_50 - dT[3] - dT[2] - dT[1]), F2C(TBP_50 - dT[3] - dT[2]),
           F2C(TBP_50 - dT[3]), F2C(TBP_50),
           F2C(TBP_50 + dT[4]), F2C(TBP_50 + dT[4] + dT[5]),
           F2C(TBP_50 + dT[4] + dT[5] + dT[6]) >>)

\* the power laws on the key temperatures D86_dict_r and their differences
\* gap (dT1_D86 .. dT7_D86); a negative base makes the result NaN or
\* complex, which PchipInterpolator rejects with ValueError
Daubert_from_gaps(D86_dict_r, gap) ==
    IF ~NonNegative(gap) \/ D86_dict_r[4] < 0 THEN Raised
    ELSE Daubert_TBP_interp(
             PowerLaw(Daubert_constants[4][1], D86_dict_r[4], Daubert_constants[4][2]),
             << PowerLaw(Daubert_constants[1][1], gap[1], Daubert_constants[1][2]),
                PowerLaw(Daubert_constants[2][1], gap[2], Daubert_constants[2][2]),
                PowerLaw(Daubert_constants[3][1], gap[3], Daubert_constants[3][2]),
                PowerLaw(Daubert_constants[5][1], gap[4], Daubert_constants[5][2]),
                PowerLaw(Daubert_constants[6][1], gap[5], Daubert_constants[6][2]),
                PowerLaw(Daubert_constants[7][1], gap[6], Daubert_constants[7][2]) >>)

Daubert_from_keys(D86_dict_r) ==
    Daubert_from_gaps(D86_dict_r, List([i \in 1..6 |-> D86_dict_r[i + 1] - D86_dict_r[i]]))

\* the missing_point branch: every key temperature is the Celsius
\* interpolant's value
Daubert_interpolated(D86_r_interp) ==
    IF D86_r_interp.raised THEN Raised
    ELSE Daubert_from_keys(List([i \in 1..7 |-> Eval(D86_r_interp, vol_distl_list[i])]))

\* Oil.Daubert_ASTM_D86_TBP: the interpolant, or Raised
Daubert_ASTM_D86_TBP(D86) ==
    IF missing_point(D86)
    THEN Daubert_interpolated(PchipInterpolator(Vols(D86), Temps(D86)))
    ELSE Daubert_from_keys(List([i \in 1..7 |-> C2F(DictGet(D86, vol_distl_list[i]))]))

\* the D2887 temperature at one key volume with the weighted value at 50
\* percent too
D2887_point_all_weighted(D86_interp, TBP_interp, SD_50_C, vol) ==
    Eval(D86_interp, vol)
    + MulDiv(85, Eval(TBP_interp, vol) - Eval(D86_interp, vol), 100)

\* the D2887 temperature at one key volume placed 15 percent beyond TBP
D2887_point_beyond_TBP(D86_interp, TBP_interp, SD_50_C, vol) ==
    IF vol = 50 THEN SD_50_C
    ELSE Eval(D86_interp, vol)
         + MulDiv(115, Eval(TBP_interp, vol) - Eval(D86_interp, vol), 100)

\* the D2887 temperature at one key volume
D2887_point(D86_interp, TBP_interp, SD_50_C, vol) ==
    IF vol = 50 THEN SD_50_C
    ELSE Eval(D86_interp, vol)
         + MulDiv(85, Eval(TBP_interp, vol) - Eval(D86_interp, vol), 100)

\* D86_to_D2887 from the D86 interpolant, the 50% point and the API TBP
D2887_from_TBP(D86_interp, SD_50_C, api) ==
    IF api.raised THEN Raised
    ELSE PchipInterpolator(key_points,
             List([i \in 1..7 |->
                 D2887_point(D86_interp, api.TBP_interp, SD_50_C, key_points[i])]))

\* D86_to_D2887 from the 50% D86 temperature in Fahrenheit
D2887_from_50(D86, D86_interp, D86_50_F) ==
    IF D86_50_F < 0 THEN Raised
    ELSE D2887_from_TBP(D86_interp,
             F2C(Pow(MulDiv(D86_50_F, 100000, 77601), Inverse(103950000))),
             API_D86_TBP(D86))

D2887_from_interp(D86, D86_interp) ==
    IF D86_interp.raised THEN Raised
    ELSE D2887_from_50(D86, D86_interp, C2F(Eval(D86_interp, 50)))

\* Oil.D86_to_D2887: the interpolant, or Raised
D86_to_D2887(D86) == D2887_from_interp(D86, PchipInterpolator(Vols(D86), Temps(D86)))

\* the Riazi power law of D2887_to_D86 and D2887_to_TBP_direct at one key:
\* Celsius to Rankine, a * T ** b, Rankine to Celsius
RiaziPoint(ab, temp_C) ==
    MulDiv(PowerLaw(ab[1], MulDiv(temp_C, 9, 5) + 4916700, ab[2]) - 4916700, 5, 9)

\* the D2887 temperatures at the key points, or Raised
D2887_at_keys(D2887_interp) ==
    IF D2887_interp.raised THEN Raised
    ELSE [raised |-> FALSE,
          at |-> List([i \in 1..7 |-> Eval(D2887_interp, key_points[i])])]

\* the list of [vol, temp] of a Riazi conversion of the key temperatures
Riazi_list(keys, coefficients) ==
    IF keys.raised THEN Raised
    ELSE IF \E i \in 1..7 : MulDiv(keys.at[i], 9, 5) + 4916700 < 0 THEN Raised
    ELSE [raised |-> FALSE,
          list |-> List([i \in 1..7 |->
              <<key_points[i], RiaziPoint(coefficients[key_points[i]], keys.at[i])>>])]

\* Oil.D2887_to_D86: [raised, list]
D2887_to_D86(D2887) ==
    Riazi_list(D2887_at_keys(PchipInterpolator(Vols(D2887), Temps(D2887))),
               riazi_d86_coefficients)

\* the API constants of a key, with the pair of 95 percent for the key 100
TBP_to_D86_constants_of_95(vol) ==
    IF vol \in DOMAIN API_constants THEN API_constants[vol] ELSE API_constants[95]

\* the API constants of a key, (0.9167, 1.0019) for the key 100
TBP_to_D86_constants(vol) ==
    IF vol \in DOMAIN API_constants THEN API_constants[vol] ELSE <<9167, 100190000>>

TBP_to_D86_keys == <<0, 10, 30, 50, 70, 90, 95, 100>>

\* TBP_to_D86 from the Rankine temperatures at the keys
TBP_to_D86_list(TBP_R) ==
    IF ~NonNegative(TBP_R) THEN Raised
    ELSE [raised |-> FALSE,
          list |-> List([i \in 1..8 |->
              <<TBP_to_D86_keys[i],
                R2C(Pow(MulDiv(TBP_R[i], S, TBP_to_D86_constants(TBP_to_D86_keys[i])[1]),
                        Inverse(TBP_to_D86_constants(TBP_to_D86_keys[i])[2])))>>])]

TBP_to_D86_from_interp(TBP_interp) ==
    IF TBP_interp.raised THEN Raised
    ELSE TBP_to_D86_list(List([i \in 1..8 |-> C2R(Eval(TBP_interp, TBP_to_D86_keys[i]))]))

\* Oil.TBP_to_D86: [raised, list]
TBP_to_D86(TBP) == TBP_to_D86_from_interp(PchipInterpolator(Vols(TBP), Temps(TBP)))

\* the D2887 curve derived through the correlations instead of the raw input
D2887_to_D2887_interp_derived(D2887) ==
    IF D2887_to_D86(D2887).raised THEN Raised
    ELSE D86_to_D2887(D2887_to_D86(D2887).list)

\* Oil.D2887_to_D2887_interp
D2887_to_D2887_interp(D2887) == PchipInterpolator(Vols(D2887), Temps(D2887))

\* Oil.TBP_to_TBP_interp
TBP_to_TBP_interp(TBP) == PchipInterpolator(Vols(TBP), Temps(TBP))

\* the interpolant of a converted list
Interp_of_list(converted) ==
    IF converted.raised THEN Raised
    ELSE PchipInterpolator(Vols(converted.list), Temps(converted.list))

\* Oil.D2887_to_TBP_direct: the interpolant, or Raised
D2887_to_TBP_direct(D2887) ==
    Interp_of_list(
        Riazi_list(D2887_at_keys(PchipInterpolator(Vols(D2887), Temps(D2887))),
                   riazi_tbp_coefficients))

\* ------------------------------------------------------------------------
\* Properties
\* ------------------------------------------------------------------------

\* the D86 curve in Fahrenheit: the knots of D86_interp with the canonical
\* temperatures converted
D86_interop_F(D86_interp, original_temperatures) ==
    PchipInterpolator(D86_interp.x,
        List([i \in 1..Len(original_temperatures) |-> C2F(original_temperatures[i])]))

\* the volume average of the Fahrenheit curve f
VABP_of(f) ==
    (Eval(f, 10) + Eval(f, 30) + Eval(f, 50) + Eval(f, 70) + Eval(f, 90)) \div 5

\* Oil.VABP_, in Fahrenheit
VABP_(D86_interp, original_temperatures) ==
    VABP_of(D86_interop_F(D86_interp, original_temperatures))

\* VABP less the correction delta, from VABP and the slope SL
MeABP_from(VABP_val, SL) ==
    VABP_val - Exp(-94402000 - MulDiv(865000, Pow(VABP_val - 32 * S, 66670000), S)
                   + MulDiv(299791000, Pow(SL, 33300000), S))

MeABP_of(f) == MeABP_from(VABP_of(f), (Eval(f, 90) - Eval(f, 10)) \div (90 - 10))

\* Oil.MeABP_, in Fahrenheit
MeABP_(D86_interp, original_temperatures) ==
    MeABP_of(D86_interop_F(D86_interp, original_temperatures))

\* the specific gravity taken against 1000 kg/m3
SG_per_1000(Density) == MulDiv(Density * S, 1, 1000)

\* self.SG = self.Density / 999.013 (Density in kg/m3, a whole number here)
SG_(Density) == MulDiv(Density * S, 1000, 999013)

\* Oil.WatsonK_
WatsonK_(MeABP_val, Density) == MulDiv(Pow(MeABP_val + 460 * S, Q \div 3), S, SG_(Density))

\* ------------------------------------------------------------------------
\* Oil.__init__
\* ------------------------------------------------------------------------

\* the if / elif chain on the upper-cased tag; "invalid" is the else branch
DispatchUpper(U) ==
    IF U = <<"D","8","6">> THEN "D86"
    ELSE IF U \in { <<"D","2","8","8","7">>, <<"S","I","M","D","I","S">> } THEN "D2887"
    ELSE IF U = <<"T","B","P">> THEN "TBP"
    ELSE "invalid"

\* the branch __init__ takes for input_type
Dispatch(input_type) == DispatchUpper(upper(input_type))

\* the attributes a branch assigns, or Raised when a conversion raised
Attributes(D86, api, TBP_interp, Daubert_TBP, D2887_interp) ==
    IF api.raised \/ TBP_interp.raised \/ Daubert_TBP.raised \/ D2887_interp.raised
    THEN Raised
    ELSE [raised |-> FALSE,
          D86 |-> D86,
          original_temperatures |-> Temps(D86),
          original_volperc_distilled |-> Vols(D86),
          D86_interp |-> api.D86_interp,
          TBP_interp |-> TBP_interp,
          Daubert_TBP_interp |-> Daubert_TBP,
          D2887_interp |-> D2887_interp]

\* the branches once the API conversion of the canonical D86 is made
BranchD86_from_API(distillation_input, api) ==
    IF api.raised THEN Raised
    ELSE Attributes(distillation_input, api, api.TBP_interp,
                    Daubert_ASTM_D86_TBP(distillation_input),
                    D86_to_D2887(distillation_input))

\* the D86 branch with the input resampled to the key volumes
BranchD86_resampled(distillation_input) ==
    IF API_D86_TBP(distillation_input).raised THEN Raised
    ELSE LET resampled ==
                 Zip(key_points,
                     [i \in 1..7 |-> Eval(API_D86_TBP(distillation_input).D86_interp,
                                          key_points[i])])
         IN  BranchD86_from_API(resampled, API_D86_TBP(resampled))

\* input_type 'D86': the input is the canonical D86
BranchD86(distillation_input) ==
    BranchD86_from_API(distillation_input, API_D86_TBP(distillation_input))

BranchD2887_from_D86(distillation_input, d86_data) ==
    IF d86_data.raised THEN Raised
    ELSE Attributes(d86_data.list, API_D86_TBP(d86_data.list),
                    D2887_to_TBP_direct(distillation_input),
                    Daubert_ASTM_D86_TBP(d86_data.list),
                    D2887_to_D2887_interp(distillation_input))

\* input_type 'D2887' or 'SIMDIS'
BranchD2887(distillation_input) ==
    BranchD2887_from_D86(distillation_input, D2887_to_D86(distillation_input))

BranchTBP_from_D86(distillation_input, d86_data) ==
    IF d86_data.raised THEN Raised
    ELSE Attributes(d86_data.list, API_D86_TBP(d86_data.list),
                    TBP_to_TBP_interp(distillation_input),
                    Daubert_ASTM_D86_TBP(d86_data.list),
                    D86_to_D2887(d86_data.list))

\* input_type 'TBP'
BranchTBP(distillation_input) ==
    BranchTBP_from_D86(distillation_input, TBP_to_D86(distillation_input))

\* the scalars, from MeABP
Scalars_from(b, Density, input_type, VABP, MeABP) ==
    [raised |-> FALSE,
     Density |-> Density,
     input_type |-> input_type,
     D86 |-> b.D86,
     original_temperatures |-> b.original_temperatures,
     original_volperc_distilled |-> b.original_volperc_distilled,
     D86_interp |-> b.D86_interp,
     TBP_interp |-> b.TBP_interp,
     Daubert_TBP_interp |-> b.Daubert_TBP_interp,
     D2887_interp |-> b.D2887_interp,
     VABP |-> VABP,
     MeABP |-> MeABP,
     SG |-> SG_(Density),
     WatsonK |-> WatsonK_(MeABP, Density)]

\* the end of __init__: Density, input_type and the four scalars
WithProperties(b, Density, input_type) ==
    IF b.raised THEN Raised
    ELSE Scalars_from(b, Density, input_type,
                      VABP_(b.D86_interp, b.original_temperatures),
                      MeABP_(b.D86_interp, b.original_temperatures))

\* the branch of __init__ for a family
Branch(family, distillation_input) ==
    CASE family = "D86" -> BranchD86(distillation_input)
      [] family = "D2887" -> BranchD2887(distillation_input)
      [] family = "TBP" -> BranchTBP(distillation_input)
      [] OTHER -> Raised

\* the constructor with a failed conversion replaced by a default sample
Oil_init_default(distillation_input, Density, input_type) ==
    IF Dispatch(input_type) # "invalid"
       /\ Branch(Dispatch(input_type), distillation_input).raised
    THEN WithProperties(BranchD86(<< <<0, 160 * S>>, <<50, 225 * S>>, <<100, 290 * S>> >>),
                        Density, input_type)
    ELSE WithProperties(Branch(Dispatch(input_type), distillation_input),
                        Density, input_type)

\* Oil(distillation_input, Density, input_type): the sample, or Raised when
\* the constructor raises ValueError
Oil_init(distillation_input, Density, input_type) ==
    WithProperties(Branch(Dispatch(input_type), distillation_input), Density, input_type)

\* ------------------------------------------------------------------------
\* Inputs
\* ------------------------------------------------------------------------

\* a [vol, temp] point, the temperature given in tenths of a degree Celsius
Pt(vol, tenths) == <<vol, tenths * (S \div 10)>>

\* the D86 curve of the tests (TestConversionPhysics, TestRoundTripConversions)
D86_representative ==
    << Pt(0, 1600), Pt(10, 1700), Pt(30, 1900), Pt(50, 2250), Pt(70, 2600),
       Pt(90, 2800), Pt(100, 2900) >>

\* the 3-point curve of the tests
D86_three_point == << Pt(0, 1600), Pt(50, 2250), Pt(100, 2900) >>

\* d2887_data of test_riazi_methods.py
D2887_validation ==
    << Pt(0, 1600), Pt(10, 1805), Pt(30, 2050), Pt(50, 2250), Pt(70, 2450),
       Pt(90, 2700), Pt(100, 2900) >>

\* curves measured at volumes other than the correlation keys
Every_20_percent ==
    << Pt(0, 1500), Pt(20, 2000), Pt(40, 2100), Pt(60, 2500), Pt(80, 2600),
       Pt(100, 3000) >>

Off_key_volumes ==
    << Pt(0, 1600), Pt(5, 1650), Pt(20, 1750), Pt(40, 2300), Pt(60, 2400),
       Pt(80, 2800), Pt(95, 3000), Pt(100, 3200) >>

\* a TBP curve: the API TBP of D86_representative, to a tenth of a degree
TBP_seven_point ==
    << Pt(0, 1290), Pt(10, 1535), Pt(30, 1848), Pt(50, 2277), Pt(70, 2689),
       Pt(90, 2932), Pt(100, 3029) >>

\* a D86 curve measured at the volumes of vol_distl_list, the last at 95
\* percent, levelling off over the last 5 percent
Flattening_tail ==
    << Pt(0, 1600), Pt(10, 1700), Pt(30, 1900), Pt(50, 2250), Pt(70, 2600),
       Pt(90, 2800), Pt(95, 2810) >>

\* a lighter D86 curve over 0..100 that rises 2 degrees over its last 10
\* percent
Narrow_tail ==
    << Pt(0, 1000), Pt(10, 1100), Pt(30, 1300), Pt(50, 1500), Pt(70, 1700),
       Pt(90, 1900), Pt(100, 1920) >>

Two_points == << Pt(0, 1600), Pt(100, 2900) >>

One_point == << Pt(50, 2250) >>

No_points == << >>

Repeated_volume == << Pt(0, 1600), Pt(50, 2250), Pt(50, 2300) >>

Unsorted_volumes == << Pt(50, 2250), Pt(0, 1600), Pt(100, 2900) >>

PointLists ==
    { D86_representative, D86_three_point, D2887_validation, Every_20_percent,
      Off_key_volumes, TBP_seven_point, Flattening_tail, Narrow_tail,
      Two_points, One_point, No_points, Repeated_volume, Unsorted_volumes }

Densities == { 750, 820 }

RECURSIVE Casings(_)
\* every letter-casing of a string
Casings(str) ==
    IF str = << >> THEN { << >> }
    ELSE { <<c>> \o rest : c \in { Head(str), UpperChar(Head(str)) },
                           rest \in Casings(Tail(str)) }

Tags ==
    Casings(<<"d","8","6">>) \cup Casings(<<"d","2","8","8","7">>)
    \cup Casings(<<"t","b","p">>)
    \cup { <<"S","i","m","D","i","s","t">>, <<"S","I","M","D","I","S","T">>,
           <<"s","i","m","d","i","s","t">>,
           <<"S","i","m","D","i","s">>, <<"s","i","m","d","i","s">>,
           <<"I","N","V","A","L","I","D">>, <<"D","8","7">>, << >> }

\* ------------------------------------------------------------------------
\* State
\* ------------------------------------------------------------------------

VARIABLES
    call,   \* the arguments of the constructor call, NoCall before it
    pc,     \* "start", then "constructed" or "failed"
    oil,    \* the sample the constructor returned, NoOil when there is none
    error,  \* the exception the constructor raised, "none" when it did not
    back,   \* the sample reconstructed by a round trip, NoBack before it
    ret,    \* what the last read returned and to which reader, NoRet before
    batch,  \* the BatchProcessor and its input directory, NoBatch without one
    gui     \* the DistillationConverterGUI window, NoGui without one

vars == <<call, pc, oil, error, back, ret, batch, gui>>

NumReaders == 2

Readers == 1..NumReaders

NoCall == [made |-> FALSE]

NoOil == [constructed |-> FALSE]

NoBack == [made |-> FALSE]

NoRet == [reader |-> 0]

\* no BatchProcessor has been constructed
NoBatch == [made |-> FALSE]

\* no window has been opened
NoGui == [made |-> FALSE]

Curves == { "D86_interp", "D2887_interp", "TBP_interp", "Daubert_TBP_interp" }

Scalars == { "VABP", "MeABP", "WatsonK", "SG" }

\* the volumes the readers evaluate at; 120 is outside every curve
ReadGrid == { 0, 50, 100, 120 }

ReadUnits == { <<"C">>, <<"f">>, <<"K","e","l","v","i","n">>, <<"x">> }

ReadValues == { 100 * S }

Init ==
    /\ call = NoCall
    /\ pc = "start"
    /\ oil = NoOil
    /\ error = "none"
    /\ back = NoBack
    /\ ret = NoRet
    /\ batch = NoBatch
    /\ gui = NoGui

\* the constructor returns the sample or raises
Return(r) ==
    IF r.raised
    THEN pc' = "failed" /\ oil' = NoOil /\ error' = r.error
    ELSE pc' = "constructed" /\ oil' = r /\ error' = "none"

\* oil = Oil(distillation_input, Density, input_type)
Construct ==
    /\ pc = "start"
    /\ \E distillation_input \in PointLists, Density \in Densities, input_type \in Tags :
          /\ call' = [made |-> TRUE, distillation_input |-> distillation_input,
                      Density |-> Density, input_type |-> input_type]
          /\ Return(Oil_init(distillation_input, Density, input_type))
    /\ UNCHANGED <<back, ret, batch, gui>>

\* oil.D86_interp(v), oil.D2887_interp(v), oil.TBP_interp(v), oil.Daubert_TBP_interp(v)
Evaluate(r) ==
    /\ pc = "constructed"
    /\ \E curve \in Curves, v \in ReadGrid :
          ret' = [reader |-> r, op |-> curve, arg |-> <<v>>,
                  result |-> [raised |-> FALSE, value |-> Eval(oil[curve], v)]]
    /\ UNCHANGED <<call, pc, oil, error, back, batch, gui>>

\* oil.VABP, oil.MeABP, oil.WatsonK, oil.SG
ReadProperty(r) ==
    /\ pc = "constructed"
    /\ \E name \in Scalars :
          ret' = [reader |-> r, op |-> name, arg |-> << >>,
                  result |-> [raised |-> FALSE, value |-> oil[name]]]
    /\ UNCHANGED <<call, pc, oil, error, back, batch, gui>>

\* oil.convert_temperature(value, from_unit, to_unit)
Convert(r) ==
    /\ pc = "constructed"
    /\ \E value \in ReadValues, from_unit \in ReadUnits, to_unit \in ReadUnits :
          ret' = [reader |-> r, op |-> "convert_temperature",
                  arg |-> <<value, from_unit, to_unit>>,
                  result |-> convert_temperature(value, from_unit, to_unit)]
    /\ UNCHANGED <<call, pc, oil, error, back, batch, gui>>

\* WatsonK_ keeping MeABP + 460 in the sample's MeABP
CallWatsonK_rankine(r) ==
    /\ pc = "constructed"
    /\ ret' = [reader |-> r, op |-> "WatsonK_", arg |-> << >>,
               result |-> [raised |-> FALSE, value |-> WatsonK_(oil.MeABP, oil.Density)]]
    /\ oil' = [oil EXCEPT !.MeABP = oil.MeABP + 460 * S, !.SG = SG_(oil.Density)]
    /\ UNCHANGED <<call, pc, error, back, batch, gui>>

\* oil.WatsonK_(): reads MeABP and Density, assigns self.SG, returns Watson K
CallWatsonK(r) ==
    /\ pc = "constructed"
    /\ ret' = [reader |-> r, op |-> "WatsonK_", arg |-> << >>,
               result |-> [raised |-> FALSE, value |-> WatsonK_(oil.MeABP, oil.Density)]]
    /\ oil' = [oil EXCEPT !.SG = SG_(oil.Density)]
    /\ UNCHANGED <<call, pc, error, back, batch, gui>>

\* round(x, ndigits) with step = S / 10^ndigits: the nearest multiple of
\* step, a half going to the even multiple
round(x, step) ==
    IF 2 * (x % step) < step THEN (x \div step) * step
    ELSE IF 2 * (x % step) > step THEN (x \div step + 1) * step
    ELSE IF (x \div step) % 2 = 0 THEN (x \div step) * step
    ELSE (x \div step + 1) * step

\* validate_input_data and the Field constraints of ConversionRequest
validate_input_data(request) ==
    /\ Len(request.distillation_input) >= 3
    /\ \A i \in 1..Len(request.distillation_input) :
          /\ request.distillation_input[i][1] >= 0
          /\ request.distillation_input[i][1] <= 100
          /\ request.distillation_input[i][2] >= -50 * S
          /\ request.distillation_input[i][2] <= 400 * S
    /\ StrictlyIncreasing(Temps(request.distillation_input))
    /\ request.Density >= 600
    /\ request.Density <= 1200
    /\ upper(request.input_type) \in { <<"D","8","6">>, <<"D","2","8","8","7">>,
                                       <<"T","B","P">> }

\* the ConversionPoint of a volume for output_types ["D86", "D2887", "TBP"]
ConversionPoint(sample, vol_pct) ==
    [volume_percent |-> vol_pct,
     d86_c |-> round(Eval(sample.D86_interp, vol_pct), S \div 10),
     d2887_c |-> round(Eval(sample.D2887_interp, vol_pct), S \div 10),
     tbp_c |-> round(Eval(sample.TBP_interp, vol_pct), S \div 10)]

\* PropertyResult(vabp_fahrenheit=..., meabp_celsius=..., watson_k=..., density_kg_m3=...)
PropertyResult(sample) ==
    [vabp_fahrenheit |-> round(sample.VABP, S \div 10),
     meabp_celsius |-> round(sample.MeABP, S \div 10),
     watson_k |-> round(sample.WatsonK, S \div 1000),
     density_kg_m3 |-> sample.Density]

\* ConversionResponse of the request that made the sample
ConversionResponse(sample) ==
    [conversions |-> List([i \in 1..7 |->
                              ConversionPoint(sample, <<0, 10, 30, 50, 70, 90, 100>>[i])]),
     properties |-> PropertyResult(sample)]

\* POST /convert with the data, density and family of the call: the response,
\* or HTTP 400 when the validation or the constructor raises ValueError
convert_curves(r) ==
    /\ pc \in { "constructed", "failed" }
    /\ ret' = [reader |-> r, op |-> "convert_curves", arg |-> << >>,
               result |-> IF pc = "constructed" /\ validate_input_data(call)
                          THEN [raised |-> FALSE, value |-> ConversionResponse(oil)]
                          ELSE [raised |-> TRUE, error |-> "HTTP 400"]]
    /\ UNCHANGED <<call, pc, oil, error, back, batch, gui>>

\* the round trip of TestRoundTripConversions, run on a fresh D86 sample:
\* data = [[p[0], curve(p[0])] for p in original_data]; Oil(data, Density, via)
RoundTripData(sample, original_data, via) ==
    [i \in 1..Len(original_data) |->
        <<original_data[i][1],
          Eval(IF via = "D2887" THEN sample.D2887_interp ELSE sample.TBP_interp,
               original_data[i][1])>>]

RoundTrip ==
    /\ pc = "constructed"
    /\ Dispatch(call.input_type) = "D86"
    /\ back = NoBack
    /\ ret = NoRet
    /\ \E via \in { "D2887", "TBP" } :
          LET data == RoundTripData(oil, call.distillation_input, via)
              tag == IF via = "D2887" THEN <<"D","2","8","8","7">> ELSE <<"T","B","P">>
          IN  back' = [made |-> TRUE, via |-> via, data |-> data,
                       oil |-> Oil_init(data, call.Density, tag)]
    /\ UNCHANGED <<call, pc, oil, error, ret, batch, gui>>

Next ==
    \/ Construct
    \/ \E r \in Readers : Evaluate(r)
    \/ \E r \in Readers : ReadProperty(r)
    \/ \E r \in Readers : Convert(r)
    \/ \E r \in Readers : CallWatsonK(r)
    \/ \E r \in Readers : convert_curves(r)
    \/ RoundTrip

Spec == Init /\ [][Next]_vars

\* ------------------------------------------------------------------------
\* Temperature conversion on its own: the arguments are drawn at the start,
\* the sample is the one of TestTemperatureConversions
\* ------------------------------------------------------------------------

\* values in 1/S degree: 0, 100, 32, 212, -40, 0 K in Celsius, 0 C in
\* Rankine, 123.4567 and -0.0001
ConvertValues ==
    { 0, 100 * S, 32 * S, 212 * S, -40 * S, -2731500, 4916700, 1234567, -1 }

\* the keys of unit_map in several letter-casings
KnownUnitNames ==
    Casings(<<"c">>) \cup Casings(<<"k">>) \cup Casings(<<"f">>) \cup Casings(<<"r">>)
    \cup Casings(<<"°","c">>) \cup Casings(<<"°","f">>) \cup Casings(<<"°","r">>)
    \cup { <<"c","e","l","s","i","u","s">>, <<"C","e","l","s","i","u","s">>,
           <<"C","E","L","S","I","U","S">>,
           <<"k","e","l","v","i","n">>, <<"K","e","l","v","i","n">>,
           <<"K","E","L","V","I","N">>,
           <<"f","a","h","r","e","n","h","e","i","t">>,
           <<"F","a","h","r","e","n","h","e","i","t">>,
           <<"F","A","H","R","E","N","H","E","I","T">>,
           <<"r","a","n","k","i","n","e">>, <<"R","a","n","k","i","n","e">>,
           <<"R","A","N","K","I","N","E">>,
           <<"d","e","g"," ","c">>, <<"D","E","G"," ","C">> }

\* strings that are no key of unit_map in any letter-casing
UnknownUnitNames ==
    { <<"x">>, << >>, <<"°">>, <<"d","e","g","c">>,
      <<"c","e","l","c","i","u","s">>, <<"K","e","l","v","i","n","s">> }

UnitNames == KnownUnitNames \cup UnknownUnitNames

\* the test's sample is constructed and the arguments of the call are chosen
ConvertInit ==
    /\ call = [made |-> TRUE, distillation_input |-> D86_three_point,
               Density |-> 820, input_type |-> <<"D","8","6">>]
    /\ pc = "constructed"
    /\ oil = Oil_init(D86_three_point, 820, <<"D","8","6">>)
    /\ error = "none"
    /\ back = NoBack
    /\ batch = NoBatch
    /\ gui = NoGui
    /\ \E value \in ConvertValues, from_unit \in UnitNames, to_unit \in UnitNames :
          ret = [reader |-> 0, op |-> "arguments",
                 arg |-> <<value, from_unit, to_unit>>]

\* result = oil.convert_temperature(value, from_unit, to_unit)
ConvertOnce ==
    /\ ret.op = "arguments"
    /\ ret' = [reader |-> 1, op |-> "convert_temperature", arg |-> ret.arg,
               result |-> convert_temperature(ret.arg[1], ret.arg[2], ret.arg[3])]
    /\ UNCHANGED <<call, pc, oil, error, back, batch, gui>>

\* oil.convert_temperature(result, to_unit, from_unit): the result converted
\* back to the unit it came from
ConvertBack ==
    /\ ret.op = "convert_temperature"
    /\ ~ret.result.raised
    /\ ret' = [reader |-> 1, op |-> "convert_back", arg |-> ret.arg,
               first |-> ret.result.value,
               result |-> convert_temperature(ret.result.value, ret.arg[3], ret.arg[2])]
    /\ UNCHANGED <<call, pc, oil, error, back, batch, gui>>

ConvertNext == ConvertOnce \/ ConvertBack

ConvertSpec == ConvertInit /\ [][ConvertNext]_vars

\* ------------------------------------------------------------------------
\* batch_processor.py: BatchProcessor over a directory of CSV files
\* ------------------------------------------------------------------------

\* the largest number of CSV files in the input directory
MaxFiles == 3

\* an Optional field that holds no value, and one that holds v
None == [some |-> FALSE]

Some(v) == [some |-> TRUE, value |-> v]

\* contents of a CSV file: whether pandas parses it, its columns, its rows
\* of volume and temperature, and the first non-null value of its density
\* column (0 when the column is missing or empty)
CsvContents ==
    { [parses |-> FALSE, columns |-> { }, rows |-> << >>, density |-> 0],
      [parses |-> TRUE, columns |-> { "Vol%", "Density" },
       rows |-> D86_three_point, density |-> 850],
      [parses |-> TRUE, columns |-> { "Vol%", "Temp_C" },
       rows |-> Two_points, density |-> 0],
      [parses |-> TRUE, columns |-> { "Vol%", "Temp_C" },
       rows |-> D86_three_point, density |-> 0],
      [parses |-> TRUE, columns |-> { "Vol%", "Temp_C", "Density" },
       rows |-> D86_representative, density |-> 850],
      [parses |-> TRUE, columns |-> { "Vol%", "Temp_C" },
       rows |-> Repeated_volume, density |-> 0] }

\* the input directories: some of the file names, each with contents; a
\* name is the rank of the path in the order sorted() gives
Directories == UNION { [names -> CsvContents] : names \in SUBSET (1..MaxFiles) }

\* sorted(csv_files): the names in increasing order
RECURSIVE sorted(_)
sorted(names) ==
    IF names = { } THEN << >>
    ELSE <<CHOOSE n \in names : \A m \in names : n <= m>>
         \o sorted(names \ { CHOOSE n \in names : \A m \in names : n <= m })

\* csv_files = list(self.input_dir.glob("*.csv")); return sorted(csv_files)
find_csv_files(self) == sorted(DOMAIN self.directory)

\* data, density = self.load_csv(filepath)
load_csv(contents) ==
    IF ~contents.parses THEN [raised |-> TRUE, error |-> "ParserError"]
    ELSE IF ~({ "Vol%", "Temp_C" } \subseteq contents.columns)
    THEN [raised |-> TRUE, error |-> "ValueError: columns"]
    ELSE [raised |-> FALSE, data |-> contents.rows,
          density |-> IF "Density" \in contents.columns THEN contents.density
                      ELSE 0]

\* BatchResult(filename=filepath.name, status='success', processed_at=...)
BatchResult(filename) ==
    [filename |-> filename, status |-> "success", error_message |-> None,
     num_points |-> None, density |-> None, vabp |-> None, watson_k |-> None]

\* except Exception as e: result.status = 'error'; result.error_message = str(e)
process_file_except(result, e) ==
    [result EXCEPT !.status = "error", !.error_message = Some(e)]

\* the body of try from Oil(...) on: the sample is made, its properties are
\* stored in the result, and _save_conversions writes the output file or
\* raises
process_file_store(result, data, density, oil_, saved) ==
    IF oil_.raised THEN process_file_except(result, oil_.error)
    ELSE IF saved
    THEN [result EXCEPT !.num_points = Some(Len(data)), !.density = Some(density),
                        !.vabp = Some(oil_.VABP), !.watson_k = Some(oil_.WatsonK)]
    ELSE process_file_except(
             [result EXCEPT !.num_points = Some(Len(data)),
                            !.density = Some(density),
                            !.vabp = Some(oil_.VABP),
                            !.watson_k = Some(oil_.WatsonK)],
             "OSError")

\* density = file_density if file_density else self.density
process_file_density(file_density, self) ==
    IF file_density # 0 THEN file_density ELSE self.density

\* the body of try after load_csv
process_file_try(result, loaded, self, saved) ==
    IF loaded.raised THEN process_file_except(result, loaded.error)
    ELSE IF Len(loaded.data) < 3
    THEN process_file_except(result, "ValueError: Minimum 3 points required")
    ELSE process_file_store(
             result, loaded.data, process_file_density(loaded.density, self),
             Oil_init(loaded.data, process_file_density(loaded.density, self),
                      self.input_type),
             saved)

\* the result process_file makes for one file
process_file_result(filepath, self, saved) ==
    process_file_try(BatchResult(filepath), load_csv(self.directory[filepath]),
                     self, saved)

\* a process_file that re-raises: a failed file leaves no result
process_file_append_skipping_errors(self, result) ==
    [self EXCEPT !.results = IF result.status = "error" THEN @
                             ELSE Append(@, result),
                 !.i = @ + 1,
                 !.pc = IF self.i + 1 = Len(self.csv_files)
                        THEN "returned" ELSE "process_all",
                 !.ret = IF self.i + 1 = Len(self.csv_files)
                         THEN [op |-> "process_all"]
                         ELSE [op |-> "process_file", value |-> result]]

\* self.results.append(result), with the loop of process_all moved on and
\* process_all returning self.results after the last file
process_file_append(self, result) ==
    [self EXCEPT !.results = Append(@, result),
                 !.i = @ + 1,
                 !.pc = IF self.i + 1 = Len(self.csv_files)
                        THEN "returned" ELSE "process_all",
                 !.ret = IF self.i + 1 = Len(self.csv_files)
                         THEN [op |-> "process_all"]
                         ELSE [op |-> "process_file", value |-> result]]

\* sum(r.watson_k for r in successful if r.watson_k)
RECURSIVE sum_watson_k(_)
sum_watson_k(successful) ==
    IF successful = << >> THEN 0
    ELSE (IF Head(successful).watson_k.some /\ Head(successful).watson_k.value # 0
          THEN Head(successful).watson_k.value ELSE 0)
         + sum_watson_k(Tail(successful))

\* r.status == 'success'
is_success(r) == r.status = "success"

\* r.status == 'error'
is_error(r) == r.status = "error"

\* report = { "total_files": ..., "successful": ..., "failed": ..., ... }
report_of(results, successful, failed) ==
    [total_files |-> Len(results),
     successful |-> Len(successful),
     failed |-> Len(failed),
     average_watson_k |-> IF successful # << >>
                          THEN Some(sum_watson_k(successful) \div Len(successful))
                          ELSE None,
     successful_files |-> List([k \in 1..Len(successful) |-> successful[k].filename]),
     failed_files |-> List([k \in 1..Len(failed) |-> failed[k].filename])]

\* processor = BatchProcessor(input_dir, output_dir, input_type, density)
BatchInit ==
    /\ call = NoCall
    /\ pc = "start"
    /\ oil = NoOil
    /\ error = "none"
    /\ back = NoBack
    /\ ret = NoRet
    /\ gui = NoGui
    /\ \E directory \in Directories :
          batch = [made |-> TRUE, directory |-> directory,
                   input_type |-> <<"D","8","6">>, density |-> 820,
                   results |-> << >>, csv_files |-> << >>, i |-> 0,
                   pc |-> "constructed", ret |-> [op |-> "__init__"]]

\* processor.process_all() up to its loop: the files are found and sorted,
\* and with no file the call returns []
process_all ==
    /\ batch.pc = "constructed"
    /\ batch' = [batch EXCEPT !.csv_files = find_csv_files(batch),
                              !.pc = IF find_csv_files(batch) = << >>
                                     THEN "returned" ELSE "process_all",
                              !.ret = [op |-> "process_all"]]
    /\ UNCHANGED <<call, pc, oil, error, back, ret, gui>>

\* self.process_file(csv_file) for the next file of the loop
process_file ==
    /\ batch.pc = "process_all"
    /\ \E saved \in BOOLEAN :
          batch' = process_file_append(
                       batch,
                       process_file_result(batch.csv_files[batch.i + 1], batch, saved))
    /\ UNCHANGED <<call, pc, oil, error, back, ret, gui>>

\* processor.generate_report()
generate_report ==
    /\ batch.pc \in { "constructed", "returned" }
    /\ batch' = [batch EXCEPT !.ret =
                    [op |-> "generate_report",
                     value |-> report_of(batch.results,
                                         SelectSeq(batch.results, is_success),
                                         SelectSeq(batch.results, is_error))]]
    /\ UNCHANGED <<call, pc, oil, error, back, ret, gui>>

BatchNext == process_all \/ process_file \/ generate_report

BatchSpec == BatchInit /\ [][BatchNext]_vars

\* ------------------------------------------------------------------------
\* distillation_converter_gui.py: DistillationConverterGUI
\* ------------------------------------------------------------------------

\* window = DistillationConverterGUI(): no point entered, no sample, the
\* density 800.0, the input type combo on its first item (D86), nothing
\* exported
GuiInit ==
    /\ call = NoCall
    /\ pc = "start"
    /\ oil = NoOil
    /\ error = "none"
    /\ back = NoBack
    /\ ret = NoRet
    /\ batch = NoBatch
    /\ gui = [made |-> TRUE, input_table |-> No_points, density |-> 800,
              input_type_str |-> <<"D","8","6">>, oil_object |-> NoOil,
              exported |-> [made |-> FALSE]]

\* the user edits the cells of the input table: the rows that hold a volume
\* and a temperature are those of one of the curves
on_cell_changed ==
    /\ \E rows \in { Two_points, D86_three_point, D86_representative } :
          gui' = [gui EXCEPT !.input_table = rows]
    /\ UNCHANGED <<call, pc, oil, error, back, ret, batch>>

\* the density spin box changes: self.density = value
on_density_changed ==
    /\ \E value \in { 750, 800, 850 } :
          gui' = [gui EXCEPT !.density = value]
    /\ UNCHANGED <<call, pc, oil, error, back, ret, batch>>

\* try: self.oil_object = Oil(...) ... except Exception: the sample of the
\* earlier calculation stays
calculate_try(self, oil_) ==
    IF oil_.raised THEN self ELSE [self EXCEPT !.oil_object = oil_]

\* the Calculate button
calculate_conversions ==
    /\ gui' = IF Len(gui.input_table) < 3 THEN gui
              ELSE calculate_try(gui, Oil_init(gui.input_table, gui.density,
                                               gui.input_type_str))
    /\ UNCHANGED <<call, pc, oil, error, back, ret, batch>>

\* the properties an export writes: self.density, and VABP, MeABP and
\* Watson K of self.oil_object to 2 decimals
export_properties(self, format) ==
    [made |-> TRUE, format |-> format,
     density |-> self.density,
     VABP |-> round(self.oil_object.VABP, S \div 100),
     MeABP |-> round(self.oil_object.MeABP, S \div 100),
     Watson_K |-> round(self.oil_object.WatsonK, S \div 100)]

\* the Export CSV button, with the file dialog cancelled or a path chosen
export_csv ==
    /\ gui.oil_object # NoOil
    /\ \E file_path \in { "", "results.csv" } :
          gui' = IF file_path = "" THEN gui
                 ELSE [gui EXCEPT !.exported = export_properties(gui, "csv")]
    /\ UNCHANGED <<call, pc, oil, error, back, ret, batch>>

\* the Export Excel button
export_excel ==
    /\ gui.oil_object # NoOil
    /\ \E file_path \in { "", "results.xlsx" } :
          gui' = IF file_path = "" THEN gui
                 ELSE [gui EXCEPT !.exported = export_properties(gui, "xlsx")]
    /\ UNCHANGED <<call, pc, oil, error, back, ret, batch>>

\* the Export JSON button
export_json ==
    /\ gui.oil_object # NoOil
    /\ \E file_path \in { "", "results.json" } :
          gui' = IF file_path = "" THEN gui
                 ELSE [gui EXCEPT !.exported = export_properties(gui, "json")]
    /\ UNCHANGED <<call, pc, oil, error, back, ret, batch>>

GuiNext ==
    \/ on_cell_changed
    \/ on_density_changed
    \/ calculate_conversions
    \/ export_csv
    \/ export_excel
    \/ export_json

GuiSpec == GuiInit /\ [][GuiNext]_vars

\* ------------------------------------------------------------------------
\* Properties of the constructor and of the sample
\* ------------------------------------------------------------------------

\* the canonical D86 list the path of a family gives
CanonicalD86(family, distillation_input) ==
    CASE family = "D86" -> distillation_input
      [] family = "D2887" -> D2887_to_D86(distillation_input).list
      [] family = "TBP" -> TBP_to_D86(distillation_input).list

\* points every family's path converts
ValidPoints(distillation_input) ==
    \A family \in { "D86", "D2887", "TBP" } : ~Branch(family, distillation_input).raised

\* the attribute holding the curve of a family
CurveOfFamily(family) ==
    CASE family = "D86" -> "D86_interp"
      [] family = "D2887" -> "D2887_interp"
      [] family = "TBP" -> "TBP_interp"

\* C1: a constructor call whose family tag is, in no letter-casing, one of
\* the accepted names D86, D2887, SimDist, TBP fails with ValueError,
\* whatever the points and the density, and produces no sample.
C1_InvalidFamilyFails ==
    LET AcceptedNames ==
            { <<"D","8","6">>, <<"D","2","8","8","7">>,
              <<"S","I","M","D","I","S","T">>, <<"T","B","P">> }
    IN  (call.made /\ upper(call.input_type) \notin AcceptedNames)
            => (pc = "failed" /\ error = "ValueError" /\ oil = NoOil)

\* C2: with a family tag that is, in any letter-casing, one of D86, D2887,
\* SimDist, TBP, construction from valid points succeeds and runs the path
\* of the family: D2887 and SimDist the D2887 path, D86 the D86 path, TBP
\* the TBP path.
C2_AcceptedNamesConstruct ==
    LET FamilyOfName ==
            [U \in { <<"D","8","6">>, <<"D","2","8","8","7">>,
                     <<"S","I","M","D","I","S","T">>, <<"T","B","P">> } |->
                IF U = <<"D","8","6">> THEN "D86"
                ELSE IF U = <<"T","B","P">> THEN "TBP"
                ELSE "D2887"]
    IN  (call.made /\ upper(call.input_type) \in DOMAIN FamilyOfName
         /\ ValidPoints(call.distillation_input))
            => /\ pc = "constructed"
               /\ oil.D86 = CanonicalD86(FamilyOfName[upper(call.input_type)],
                                         call.distillation_input)

\* C3: the curve of its own family that a sample exposes is the interpolant
\* of the raw input points, and at every input volume it returns the input
\* temperature of that point.
C3_RawCurveOfOwnFamily ==
    pc = "constructed" =>
        LET raw == call.distillation_input
            curve == oil[CurveOfFamily(Dispatch(call.input_type))]
        IN  /\ curve = PchipInterpolator(Vols(raw), Temps(raw))
            /\ \A i \in 1..Len(raw) : Eval(curve, raw[i][1]) = raw[i][2]

\* a D2887 sample measured every 20 percent was read at 100 percent and the
\* read returned the input temperature, 300
C3_Witness ==
    /\ pc = "constructed"
    /\ Dispatch(call.input_type) = "D2887"
    /\ call.distillation_input = Every_20_percent
    /\ ret.reader # 0
    /\ ret.op = "D2887_interp"
    /\ ret.arg = <<100>>
    /\ ret.result.value = 300 * S

\* C4: for the family D86 the canonical D86 list of the sample is the input
\* list: the same points in the same order, as many as were given.
C4_D86PassThrough ==
    (pc = "constructed" /\ Dispatch(call.input_type) = "D86")
        => /\ oil.D86 = call.distillation_input
           /\ Len(oil.D86) = Len(call.distillation_input)
           /\ oil.original_volperc_distilled = Vols(call.distillation_input)
           /\ oil.original_temperatures = Temps(call.distillation_input)

\* three D86 points went in and the sample holds three
C4_Witness ==
    /\ pc = "constructed"
    /\ Dispatch(call.input_type) = "D86"
    /\ call.distillation_input = D86_three_point
    /\ Len(oil.D86) = 3

\* C5: construction from fewer than 3 points fails, for every family and
\* density, and produces no sample.
C5_ThreePointsRequired ==
    (call.made /\ Len(call.distillation_input) < 3)
        => (pc = "failed" /\ oil = NoOil)

\* C6: an interpolant over fewer than 2 points, or over volumes that are not
\* strictly increasing, raises ValueError; in a constructor call of any
\* family the error reaches the caller and no sample is produced.
C6_CurveErrorPropagates ==
    (call.made /\ Dispatch(call.input_type) # "invalid"
     /\ (Len(call.distillation_input) < 2
         \/ ~StrictlyIncreasing(Vols(call.distillation_input))))
        => /\ PchipInterpolator(Vols(call.distillation_input),
                                Temps(call.distillation_input)) = Raised
           /\ pc = "failed"
           /\ error = "ValueError"
           /\ oil = NoOil

\* a TBP call with unsorted volumes failed
C6_Witness ==
    /\ pc = "failed"
    /\ error = "ValueError"
    /\ Dispatch(call.input_type) = "TBP"
    /\ call.distillation_input = Unsorted_volumes

\* C7: once constructed, the sample (curves, stored points, family tag,
\* density, scalars) is left unchanged by every step of every reader:
\* evaluations, property reads, convert_temperature and WatsonK_ calls.
C7_SampleNeverChanges ==
    [][pc = "constructed" => (oil' = oil /\ call' = call /\ pc' = pc)]_vars

\* the second reader has read from a sample that is still the one the
\* constructor returned
C7_Witness ==
    /\ pc = "constructed"
    /\ ret.reader = 2
    /\ ret.op = "WatsonK_"
    /\ ret.result.value = oil.WatsonK
    /\ oil = Oil_init(call.distillation_input, call.Density, call.input_type)

\* C8: for the representative D86 sample at density 820 the curves are
\* strictly ordered D86(v) < D2887(v) < TBP_API(v) at v = 10, 20, ..., 90.
C8_RepresentativeOrder ==
    (pc = "constructed" /\ Dispatch(call.input_type) = "D86"
     /\ call.distillation_input = D86_representative /\ call.Density = 820)
        => \A v \in { 10 * k : k \in 1..9 } :
              /\ Eval(oil.D86_interp, v) < Eval(oil.D2887_interp, v)
              /\ Eval(oil.D2887_interp, v) < Eval(oil.TBP_interp, v)

\* C9: for a sample of the family D2887 (temperatures above absolute zero)
\* D86(v) < D2887(v) and TBP(v) >= D2887(v) at every v from 0 to 100.
C9_RiaziOrder ==
    (pc = "constructed" /\ Dispatch(call.input_type) = "D2887")
        => \A v \in 0..100 :
              /\ Eval(oil.D86_interp, v) < Eval(oil.D2887_interp, v)
              /\ Eval(oil.TBP_interp, v) >= Eval(oil.D2887_interp, v)

\* C10: after the round trip D86 -> D2887 -> D86 the D86 curve of the new
\* sample is within 3 degrees of the original's at v = 0, 50 and 100.
C10_RoundTripD2887 ==
    (back.made /\ back.via = "D2887")
        => /\ ~back.oil.raised
           /\ \A v \in { 0, 50, 100 } :
                 Abs(Eval(back.oil.D86_interp, v) - Eval(oil.D86_interp, v)) < 3 * S

\* C11: after the round trip D86 -> TBP -> D86 the D86 curve of the new
\* sample is within 4 degrees of the original's at v = 0, 50 and 100.
C11_RoundTripTBP ==
    (back.made /\ back.via = "TBP")
        => /\ ~back.oil.raised
           /\ \A v \in { 0, 50, 100 } :
                 Abs(Eval(back.oil.D86_interp, v) - Eval(oil.D86_interp, v)) < 4 * S

\* C12: for the representative D86 sample at density 820 the API TBP and
\* the Daubert TBP at 50 percent differ by more than 0.1 degree and by less
\* than 5 degrees.
C12_TBPMethodsAgree ==
    (pc = "constructed" /\ Dispatch(call.input_type) = "D86"
     /\ call.distillation_input = D86_representative /\ call.Density = 820)
        => LET diff == Abs(Eval(oil.TBP_interp, 50) - Eval(oil.Daubert_TBP_interp, 50))
           IN  diff > S \div 10 /\ diff < 5 * S

\* C13: when the canonical D86 points of a sample are strictly increasing in
\* volume and in temperature, the D86 curve is strictly increasing over 0..100
\* and between two consecutive points its value is strictly between their
\* temperatures.
C13_D86ShapePreserved ==
    (pc = "constructed" /\ StrictlyIncreasing(Vols(oil.D86))
     /\ StrictlyIncreasing(Temps(oil.D86)))
        => /\ \A v \in 0..99 :
                 Eval(oil.D86_interp, v) < Eval(oil.D86_interp, v + 1)
           /\ \A i \in 1..(Len(oil.D86) - 1) :
                 \A v \in (oil.D86[i][1] + 1)..(oil.D86[i + 1][1] - 1) :
                    /\ oil.D86[i][2] < Eval(oil.D86_interp, v)
                    /\ Eval(oil.D86_interp, v) < oil.D86[i + 1][2]

\* C14: in a constructed sample whose input is strictly increasing in volume
\* and in temperature, each of the four curves never decreases between the
\* first and the last of its points, and the temperatures of its points
\* never decrease.
C14_CurvesMonotone ==
    (pc = "constructed" /\ StrictlyIncreasing(Vols(call.distillation_input))
     /\ StrictlyIncreasing(Temps(call.distillation_input)))
        => \A name \in Curves :
              LET interp == oil[name]
                  n == Len(interp.x)
              IN  /\ \A i \in 1..(n - 1) : interp.y[i] <= interp.y[i + 1]
                  /\ \A v \in interp.x[1]..(interp.x[n] - 1) :
                        Eval(interp, v) <= Eval(interp, v + 1)

\* C15: for units A and B among C, K, F, R and every value x, converting x
\* from A to B succeeds, and converting the result back from B to A
\* succeeds and gives x within 0.01.
C15_ConvertRoundTrip ==
    (/\ ret.op \in { "convert_temperature", "convert_back" }
     /\ ret.arg[2] \in { <<"C">>, <<"K">>, <<"F">>, <<"R">> }
     /\ ret.arg[3] \in { <<"C">>, <<"K">>, <<"F">>, <<"R">> })
        => /\ ~ret.result.raised
           /\ ret.op = "convert_back"
                 => Abs(ret.result.value - ret.arg[1]) < S \div 100

\* a Fahrenheit value converted to Rankine and back
C15_Witness ==
    /\ ret.op = "convert_back"
    /\ ret.arg = <<1234567, <<"F">>, <<"R">> >>
    /\ Abs(ret.first - (1234567 + 4596700)) <= S \div 1000
    /\ ~ret.result.raised
    /\ Abs(ret.result.value - 1234567) < S \div 100

\* C16: for unit names that are C, K, F, R or one of their aliases in any
\* letter-casing, convert_temperature returns the value obtained through
\* Celsius (0 C is 32 F and 273.15 K, a degree Celsius is 9/5 degree
\* Fahrenheit or Rankine, 0 R is -273.15 C), the same as for the one-letter
\* names; the value itself when both names denote one unit; 32 for
\* (0, C, F) and 373.15 for (100, C, K).
C16_ConvertIsPivot ==
    (ret.op = "convert_temperature" /\ ret.arg[2] \in KnownUnitNames
     /\ ret.arg[3] \in KnownUnitNames)
        => LET x == ret.arg[1]
               Letter(name) ==
                   IF name[1] \in { "d", "D" } THEN name[Len(name)]
                   ELSE IF name[1] = "°" THEN name[2] ELSE name[1]
               UnitOf(name) ==
                   CASE Letter(name) \in { "c", "C" } -> "C"
                     [] Letter(name) \in { "k", "K" } -> "K"
                     [] Letter(name) \in { "f", "F" } -> "F"
                     [] Letter(name) \in { "r", "R" } -> "R"
               \* nine times the Celsius value of v in unit u
               NineCelsius(v, u) ==
                   CASE u = "C" -> 9 * v
                     [] u = "K" -> 9 * (v - 2731500)
                     [] u = "F" -> 5 * (v - 320000)
                     [] u = "R" -> 5 * (v - 4916700)
               f == UnitOf(ret.arg[2])
               t == UnitOf(ret.arg[3])
           IN  /\ ~ret.result.raised
               /\ Abs(NineCelsius(ret.result.value, t) - NineCelsius(x, f))
                     <= 9 * (S \div 1000)
               /\ ret.result.value = convert_temperature(x, <<f>>, <<t>>).value
               /\ f = t => ret.result.value = x
               /\ (x = 0 /\ f = "C" /\ t = "F") => ret.result.value = 32 * S
               /\ (x = 100 * S /\ f = "C" /\ t = "K") => ret.result.value = 3731500

\* 100 converted from 'celsius' to 'fahrenheit' is 212
C16_Witness ==
    /\ ret.op = "convert_temperature"
    /\ ret.arg = <<100 * S, <<"c","e","l","s","i","u","s">>,
                   <<"f","a","h","r","e","n","h","e","i","t">> >>
    /\ ~ret.result.raised
    /\ ret.result.value = 212 * S

\* C17: when from_unit or to_unit is no unit name, convert_temperature
\* raises ValueError and returns nothing, whatever the value and also when
\* the two strings are equal.
C17_UnknownUnitFails ==
    (ret.op = "convert_temperature"
     /\ (ret.arg[2] \in UnknownUnitNames \/ ret.arg[3] \in UnknownUnitNames))
        => /\ ret.result.raised
           /\ ret.result.error = "ValueError"
           /\ ~ENABLED ConvertBack

\* the call with the same unknown string for both units has raised
C17_Witness ==
    /\ ret.op = "convert_temperature"
    /\ ret.arg[2] = <<"x">>
    /\ ret.arg[3] = <<"x">>
    /\ ret.result.raised

\* C18: for the D86 sample [[0,160],[50,225],[100,290]] at density 820 the
\* sample's MeABP is a Celsius temperature within the boiling range,
\* 160 < MeABP < 290, and so is the meabp_celsius of the POST /convert
\* response.
C18_MeABPCelsius ==
    (pc = "constructed" /\ Dispatch(call.input_type) = "D86"
     /\ call.distillation_input = D86_three_point /\ call.Density = 820)
        => /\ oil.MeABP > 160 * S
           /\ oil.MeABP < 290 * S
           /\ (ret # NoRet /\ ret.op = "convert_curves")
                 => /\ ~ret.result.raised
                    /\ ret.result.value.properties.meabp_celsius > 160 * S
                    /\ ret.result.value.properties.meabp_celsius < 290 * S

\* C19: in a sample made from D86 or D2887 input the TBP curve is the curve
\* over the 7 points at the volumes 0, 10, 30, 50, 70, 90, 95 whose
\* temperatures are the API power law a * D86_R ^ b of the canonical D86
\* curve at those volumes.
C19_TBPFromCanonicalD86 ==
    (pc = "constructed" /\ Dispatch(call.input_type) \in { "D86", "D2887" })
        => /\ oil.TBP_interp.x = <<0, 10, 30, 50, 70, 90, 95>>
           /\ oil.TBP_interp = API_D86_TBP(oil.D86).TBP_interp

\* C20: in a sample made from D2887 input the canonical D86 list has the 7
\* volumes 0, 10, 30, 50, 70, 90, 100 in ascending order; its 50 percent
\* temperature is (D2887(50)_R / 0.77601) ^ (1 / 1.0395) in Rankine, to 0.01
\* degree, and the six others are the Riazi power law a * D2887_R ^ b of
\* their key.
C20_D2887AnchoredAt50 ==
    (pc = "constructed" /\ Dispatch(call.input_type) = "D2887")
        => LET D2887_interp ==
                   PchipInterpolator(Vols(call.distillation_input),
                                     Temps(call.distillation_input))
               D2887_50_R == C2R(Eval(D2887_interp, 50))
               anchored == R2C(Pow(MulDiv(D2887_50_R, 100000, 77601), Inverse(103950000)))
           IN  /\ Vols(oil.D86) = <<0, 10, 30, 50, 70, 90, 100>>
               /\ Abs(oil.D86[4][2] - anchored) <= S \div 100
               /\ \A i \in { 1, 2, 3, 5, 6, 7 } :
                     oil.D86[i][2]
                       = RiaziPoint(riazi_d86_coefficients[key_points[i]],
                                    Eval(D2887_interp, key_points[i]))

\* C21: in a sample made from TBP input the canonical D86 list has the 8
\* volumes 0, 10, 30, 50, 70, 90, 95, 100 in ascending order, and each
\* temperature is (TBP_R / a) ^ (1 / b) of the input's TBP curve at that
\* volume, with the API pair of the volume and the pair of 0 percent,
\* (0.9167, 1.0019), at 100.
C21_TBPInverseAtEightKeys ==
    (pc = "constructed" /\ Dispatch(call.input_type) = "TBP")
        => LET keys == <<0, 10, 30, 50, 70, 90, 95, 100>>
               pair == << <<9167, 100190000>>, <<5277, 109000000>>,
                          <<7429, 104250000>>, <<8920, 101760000>>,
                          <<8705, 102260000>>, <<9490, 101100000>>,
                          <<8008, 103550000>>, <<9167, 100190000>> >>
               raw == PchipInterpolator(Vols(call.distillation_input),
                                        Temps(call.distillation_input))
           IN  /\ Vols(oil.D86) = keys
               /\ \A i \in 1..8 :
                     oil.D86[i][2]
                       = R2C(Pow(MulDiv(C2R(Eval(raw, keys[i])), S, pair[i][1]),
                                 Inverse(pair[i][2])))

\* a sample made from the seven-point TBP curve, with its D86 point at 100
C21_Witness ==
    /\ pc = "constructed"
    /\ Dispatch(call.input_type) = "TBP"
    /\ call.distillation_input = TBP_seven_point
    /\ Len(oil.D86) = 8
    /\ oil.D86[8][1] = 100
    /\ oil.D86[8][2] > oil.D86[7][2]

\* C22: when the canonical D86 points have all of 0, 10, 30, 50, 70, 90, 95,
\* the Daubert TBP at 50 percent is 0.8920 * D86(50)_F ^ 1.0176, converted
\* to Celsius, and the steps to the neighbouring keys are the Daubert pairs
\* 1, 2, 3, 5, 6, 7 applied to the D86 gaps 10-0, 30-10, 50-30, 70-50, 90-70,
\* 95-90 in Fahrenheit (each to 0.01 degree).
C22_DaubertAnchorIsAPIPair ==
    (pc = "constructed" /\ ~missing_point(oil.D86))
        => LET F == [i \in 1..7 |-> C2F(DictGet(oil.D86, vol_distl_list[i]))]
               pair == << <<74012, 60240000>>, <<49004, 71640000>>,
                          <<30305, 80080000>>, <<25282, 82000000>>,
                          <<30419, 77500000>>, <<1180, 166060000>> >>
               TBP_F == [i \in 1..7 |-> C2F(oil.Daubert_TBP_interp.y[i])]
           IN  /\ Abs(TBP_F[4] - PowerLaw(8920, F[4], 101760000)) <= S \div 100
               /\ \A i \in 1..6 :
                     Abs((TBP_F[i + 1] - TBP_F[i])
                         - PowerLaw(pair[i][1], F[i + 1] - F[i], pair[i][2]))
                       <= S \div 100

\* C23: the Daubert TBP curve of a sample is the one the anchor and gap
\* formulas give for the D86 curve's temperatures at 0, 10, 30, 50, 70, 90,
\* 95 percent taken in Fahrenheit, with the seven results converted to
\* Celsius once, whether or not the canonical D86 points have all seven
\* volumes.
C23_DaubertKeysInFahrenheit ==
    pc = "constructed"
        => oil.Daubert_TBP_interp
             = Daubert_from_keys(
                   [i \in 1..7 |-> C2F(Eval(oil.D86_interp, vol_distl_list[i]))])

\* C24: in a sample made from D86 or TBP input the D2887 curve has the 7
\* points at 0, 10, 30, 50, 70, 90, 100; its 50 percent temperature is
\* (D86(50)_F / 0.77601) ^ (1 / 1.0395) converted to Celsius and at every
\* other volume v it is D86(v) + 0.85 * (TBP(v) - D86(v)), TBP being the
\* API-method curve of the canonical D86 points.
C24_D2887FromCanonicalD86 ==
    (pc = "constructed" /\ Dispatch(call.input_type) \in { "D86", "TBP" })
        => LET keys == <<0, 10, 30, 50, 70, 90, 100>>
               TBP == API_D86_TBP(oil.D86).TBP_interp
               D86_50_F == C2F(Eval(oil.D86_interp, 50))
           IN  /\ oil.D2887_interp.x = keys
               /\ oil.D2887_interp.y[4]
                     = F2C(Pow(MulDiv(D86_50_F, 100000, 77601), Inverse(103950000)))
               /\ \A i \in { 1, 2, 3, 5, 6, 7 } :
                     oil.D2887_interp.y[i]
                       = Eval(oil.D86_interp, keys[i])
                         + MulDiv(85, Eval(TBP, keys[i]) - Eval(oil.D86_interp, keys[i]),
                                  100)

\* a sample made from the seven-point TBP curve: its TBP curve is the input,
\* not the API curve of its canonical D86, and its D2887 curve has 7 points
C24_Witness ==
    /\ pc = "constructed"
    /\ Dispatch(call.input_type) = "TBP"
    /\ call.distillation_input = TBP_seven_point
    /\ oil.TBP_interp # API_D86_TBP(oil.D86).TBP_interp
    /\ Len(oil.D2887_interp.x) = 7
    /\ oil.D2887_interp.y[1] # Eval(oil.D86_interp, 0)

C26_DaubertWalk ==
    pc = "constructed"
        => LET D == IF missing_point(oil.D86)
                    THEN [i \in 1..7 |-> Eval(oil.D86_interp, vol_distl_list[i])]
                    ELSE [i \in 1..7 |-> C2F(DictGet(oil.D86, vol_distl_list[i]))]
               pair == << <<74012, 60240000>>, <<49004, 71640000>>,
                          <<30305, 80080000>>, <<25282, 82000000>>,
                          <<30419, 77500000>>, <<1180, 166060000>> >>
               dT == [i \in 1..6 |-> PowerLaw(pair[i][1], D[i + 1] - D[i], pair[i][2])]
               TBP_F == [i \in 1..7 |-> C2F(oil.Daubert_TBP_interp.y[i])]
           IN  StrictlyIncreasing(D)
                 => /\ \A i \in 1..6 : dT[i] > 0
                    /\ \A i \in 1..6 :
                          Abs((TBP_F[i + 1] - TBP_F[i]) - dT[i]) <= S \div 100
                    /\ StrictlyIncreasing(oil.Daubert_TBP_interp.y)

\* the D86 sample with all seven keys: its Daubert values increase
C26_Witness ==
    /\ pc = "constructed"
    /\ Dispatch(call.input_type) = "D86"
    /\ call.distillation_input = Flattening_tail
    /\ StrictlyIncreasing(Temps(oil.D86))
    /\ StrictlyIncreasing(oil.Daubert_TBP_interp.y)
    /\ oil.Daubert_TBP_interp.y[7] > oil.Daubert_TBP_interp.y[4]

\* C27: in a sample made from D86 or TBP input, at each of the volumes 0,
\* 10, 30, 70, 90, 100 the D2887 temperature lies between D86(v) and the
\* API TBP(v) of the canonical D86, 85 percent of the way from D86 to TBP;
\* so D86(v) <= D2887(v) <= TBP(v) holds exactly when D86(v) <= TBP(v).
C27_BlendBetweenD86AndTBP ==
    (pc = "constructed" /\ Dispatch(call.input_type) \in { "D86", "TBP" })
        => LET TBP == API_D86_TBP(oil.D86).TBP_interp
           IN  \A v \in { 0, 10, 30, 70, 90, 100 } :
                  LET d == Eval(oil.D86_interp, v)
                      t == Eval(TBP, v)
                      sd == Eval(oil.D2887_interp, v)
                  IN  /\ (d <= t) => (d <= sd /\ sd <= t)
                      /\ (t <= d) => (t <= sd /\ sd <= d)
                      /\ Abs(100 * (sd - d) - 85 * (t - d)) < 100
                      /\ (d <= sd /\ sd <= t) <=> (d <= t)

\* the representative D86 sample: at 0 percent the API TBP is below D86 and
\* so is D2887; at 90 percent D86 < D2887 < TBP
C27_Witness ==
    /\ pc = "constructed"
    /\ Dispatch(call.input_type) = "D86"
    /\ call.distillation_input = D86_representative
    /\ Eval(oil.TBP_interp, 0) < Eval(oil.D2887_interp, 0)
    /\ Eval(oil.D2887_interp, 0) < Eval(oil.D86_interp, 0)
    /\ Eval(oil.D86_interp, 90) < Eval(oil.D2887_interp, 90)
    /\ Eval(oil.D2887_interp, 90) < Eval(oil.TBP_interp, 90)

\* C28: when the API TBP curve of a D86 sample, read at the sample's
\* volumes, is made a TBP sample, the canonical D86 temperature of the new
\* sample at each of the volumes 0, 10, 30, 50, 70, 90, 95 the original was
\* given at is the original's D86 temperature there (to 0.01 degree): the
\* inverse (TBP_R / a) ^ (1 / b) undoes the forward a * D86_R ^ b of the same
\* key.  At 100 percent it does not: for the representative sample the two
\* differ by more than a degree.
C28_InverseUndoesForward ==
    (back.made /\ back.via = "TBP")
        => /\ ~back.oil.raised
                => \A i \in 1..Len(oil.D86) :
                      oil.D86[i][1] \in { 0, 10, 30, 50, 70, 90, 95 }
                        => Abs(DictGet(back.oil.D86, oil.D86[i][1]) - oil.D86[i][2])
                             <= S \div 100
           /\ call.distillation_input = D86_representative
                => /\ ~back.oil.raised
                   /\ Abs(DictGet(back.oil.D86, 100) - DictGet(oil.D86, 100)) > S

\* the round trip of the sample given at 0 .. 95 percent has been made
C28_Witness ==
    /\ back.made
    /\ back.via = "TBP"
    /\ ~back.oil.raised
    /\ call.distillation_input = Flattening_tail
    /\ Abs(DictGet(back.oil.D86, 95) - 281 * S) <= S \div 100
    /\ DictGet(back.data, 95) # 281 * S

\* ------------------------------------------------------------------------
\* Properties of the batch processor
\* ------------------------------------------------------------------------

\* C29: every process_file call of process_all has appended exactly one
\* result, whose status is success or error; the result at position k is
\* that of the k-th file in sorted order and is what the file's own contents
\* give, whatever the other files hold: a file that does not load, has fewer
\* than 3 rows or makes no sample has status error, and a file that is
\* converted carries its own number of points and its own density (or the
\* default 820); when process_all has returned on the fresh processor the
\* list has one entry per file, and a report made then has
\* total_files = n = successful + failed.
C29_OneResultPerFile ==
    batch.made
        => /\ Len(batch.results) = batch.i
           /\ \A k \in 1..Len(batch.results) :
                 /\ batch.results[k].status \in { "success", "error" }
                 /\ batch.results[k].filename = batch.csv_files[k]
                 /\ batch.directory[batch.csv_files[k]].rows
                        \in { << >>, Two_points, Repeated_volume }
                      => batch.results[k].status = "error"
                 /\ "Temp_C" \notin batch.directory[batch.csv_files[k]].columns
                      => batch.results[k].status = "error"
                 /\ batch.results[k].status = "success"
                      => /\ batch.results[k].num_points
                               = Some(Len(batch.directory[batch.csv_files[k]].rows))
                         /\ batch.results[k].density
                               = Some(IF batch.directory[batch.csv_files[k]].density = 0
                                      THEN 820
                                      ELSE batch.directory[batch.csv_files[k]].density)
                         /\ \A j \in 1..Len(batch.results) :
                               batch.directory[batch.csv_files[j]]
                                   = batch.directory[batch.csv_files[k]]
                               /\ batch.results[j].status = "success"
                                 => batch.results[j].watson_k = batch.results[k].watson_k
           /\ \A k \in 1..(Len(batch.csv_files) - 1) :
                 batch.csv_files[k] < batch.csv_files[k + 1]
           /\ batch.pc = "returned"
                => Len(batch.results) = Cardinality(DOMAIN batch.directory)
           /\ batch.ret.op = "generate_report"
                => /\ batch.ret.value.total_files = Len(batch.results)
                   /\ batch.ret.value.total_files
                         = batch.ret.value.successful + batch.ret.value.failed
                   /\ batch.pc = "returned"
                        => batch.ret.value.total_files
                             = Cardinality(DOMAIN batch.directory)

\* process_all has returned over three files, the first unreadable, the
\* second converted, the third with two rows, and the report counts them
C29_Witness ==
    /\ batch.made
    /\ batch.pc = "returned"
    /\ batch.ret.op = "generate_report"
    /\ Len(batch.results) = 3
    /\ batch.results[1].status = "error"
    /\ batch.results[2].status = "success"
    /\ batch.results[3].status = "error"
    /\ batch.directory[3].rows = Two_points
    /\ batch.ret.value.successful = 1
    /\ batch.ret.value.failed = 2

\* ------------------------------------------------------------------------
\* Properties of the window
\* ------------------------------------------------------------------------

\* C30: whenever an export (CSV, Excel or JSON) writes its file, the density
\* it writes is the density of the sample whose Watson K it writes: the
\* density the last successful calculation was made with.
C30_ExportDensityIsSampleDensity ==
    [][(gui.made /\ gui'.exported # gui.exported)
          => gui'.exported.density = gui.oil_object.Density]_vars

====
